---- MODULE Spec2Model ----
(***************************************************************************)
(* Model of tritonbench/components/ncu: the NCU analyzer                   *)
(* (ncu_analyzer.py: get_ncu_metrics, read_ncu_report) and the nsys        *)
(* analyzer (nsys_analyzer.py: read_nsys_report).                          *)
(*                                                                         *)
(* One behaviour of the model is one call of one of the three entry        *)
(* points.  pc is the position inside the call, err the exception that     *)
(* ended it, ret the returned value (<<>> while nothing was returned,      *)
(* <<v>> once v was returned).  What the call reads from outside (the file *)
(* system, the PATH, the profiler report, the exported CSV files, the exit *)
(* status of `nsys stats`) is chosen nondeterministically at the step that *)
(* reads it.                                                               *)
(*                                                                         *)
(* Python numbers are modelled exactly: a number is a record               *)
(* [n, d, e] standing for (n / d) * 10^e in canonical form, so that        *)
(* division by 1_000_000 and by 10**12 is computed and not assumed.        *)
(* IEEE rounding of floats is not modelled.                                *)
(***************************************************************************)
EXTENDS Integers, Sequences, FiniteSets, TLC

(***************************************************************************)
(* Bounds of the model.                                                    *)
(***************************************************************************)
\* most kernel actions in the default range of an NCU report
MaxKernels == 3
\* most profiling ranges in an NCU report
MaxRanges == 2
\* most data rows in an exported nsys CSV file
MaxRows == 2

(***************************************************************************)
(* Exact arithmetic on Python numbers.                                     *)
(***************************************************************************)
Abs(x) == IF x < 0 THEN -x ELSE x

RECURSIVE GCD(_, _)
GCD(a, b) == IF b = 0 THEN a ELSE GCD(b, a % b)

RECURSIVE Pow10(_)
Pow10(k) == IF k = 0 THEN 1 ELSE 10 * Pow10(k - 1)

Zero == [n |-> 0, d |-> 1, e |-> 0]

\* moves the factors 2 and 5 of d and the factors 10 of n into the exponent
\* (n # 0, d > 0), so that every number has one representation
RECURSIVE Canon(_, _, _)
Canon(n, d, e) ==
    IF d % 2 = 0 THEN Canon(n * 5, d \div 2, e - 1)
    ELSE IF d % 5 = 0 THEN Canon(n * 2, d \div 5, e - 1)
    ELSE IF n % 10 = 0 THEN Canon(n \div 10, d, e + 1)
    ELSE [n |-> n, d |-> d, e |-> e]

\* the canonical number (n / d) * 10^e, d > 0
Mk(n, d, e) ==
    IF n = 0 THEN Zero
    ELSE LET g == GCD(Abs(n), d)
             s == IF n < 0 THEN -1 ELSE 1
         IN  Canon(s * (Abs(n) \div g), d \div g, e)

FromInt(k) == Mk(k, 1, 0)

IsZero(a) == a.n = 0

FAdd(a, b) ==
    LET e == IF a.e < b.e THEN a.e ELSE b.e
        na == a.n * Pow10(a.e - e)
        nb == b.n * Pow10(b.e - e)
    IN  Mk(na * b.d + nb * a.d, a.d * b.d, e)

FNeg(a) == [a EXCEPT !.n = -a.n]

FSub(a, b) == FAdd(a, FNeg(b))

FMul(a, b) == Mk(a.n * b.n, a.d * b.d, a.e + b.e)

\* a / b for b # 0; the callers raise ZeroDivisionError when b = 0
FDiv(a, b) ==
    LET s == IF b.n < 0 THEN -1 ELSE 1
    IN  Mk(s * a.n * b.d, a.d * Abs(b.n), a.e - b.e)

\* a / 10^k
FDivPow10(a, k) == IF IsZero(a) THEN a ELSE [a EXCEPT !.e = a.e - k]

\* a < b, by cross multiplication on a common exponent
FLess(a, b) ==
    LET e == IF a.e < b.e THEN a.e ELSE b.e
    IN  a.n * Pow10(a.e - e) * b.d < b.n * Pow10(b.e - e) * a.d

\* Python's sum(): a left fold from 0
RECURSIVE FSum(_)
FSum(s) == IF s = <<>> THEN Zero ELSE FAdd(FSum(SubSeq(s, 1, Len(s) - 1)), s[Len(s)])

Range(s) == {s[k] : k \in DOMAIN s}

\* the sequences over S of length at most k
SeqsUpTo(S, k) == UNION {[1..m -> S] : m \in 0..k}

\* dict[key] = value
DictSet(dict, key, value) ==
    [k \in DOMAIN dict \cup {key} |-> IF k = key THEN value ELSE dict[k]]

\* defaultdict(list)[key].append(value)
DictAppend(dict, key, value) ==
    DictSet(dict, key, IF key \in DOMAIN dict THEN Append(dict[key], value) ELSE <<value>>)

EmptyDict == <<>>

(***************************************************************************)
(* ncu_analyzer.py: the static tables.                                     *)
(***************************************************************************)
short_ncu_metric_name ==
    [inst_executed_ffma_peak |-> "sm__sass_thread_inst_executed_op_ffma_pred_on.sum.peak_sustained",
     inst_executed_dfma_peak |-> "sm__sass_thread_inst_executed_op_dfma_pred_on.sum.peak_sustained",
     inst_executed_fadd |-> "smsp__sass_thread_inst_executed_op_fadd_pred_on.sum.per_cycle_elapsed",
     inst_executed_fmul |-> "smsp__sass_thread_inst_executed_op_fmul_pred_on.sum.per_cycle_elapsed",
     inst_executed_ffma |-> "smsp__sass_thread_inst_executed_op_ffma_pred_on.sum.per_cycle_elapsed",
     inst_executed_dadd |-> "smsp__sass_thread_inst_executed_op_dadd_pred_on.sum.per_cycle_elapsed",
     inst_executed_dmul |-> "smsp__sass_thread_inst_executed_op_dmul_pred_on.sum.per_cycle_elapsed",
     inst_executed_dfma |-> "smsp__sass_thread_inst_executed_op_dfma_pred_on.sum.per_cycle_elapsed",
     dram_bytes_write |-> "dram__bytes_write.sum",
     dram_bytes_read |-> "dram__bytes_read.sum",
     dram_bytes_per_second |-> "dram__bytes.sum.per_second",
     dram_bytes |-> "dram__bytes.sum",
     sm_freq |-> "smsp__cycles_elapsed.avg.per_second",
     dram_bandwidth |-> "dram__bytes.sum.per_second",
     duration |-> "gpu__time_duration.sum"]

bench_metric_to_short_ncu_metric ==
    [memory_traffic |-> <<"dram_bytes_write", "dram_bytes_read">>,
     arithmetic_intensity |->
        <<"inst_executed_ffma_peak", "inst_executed_dfma_peak", "inst_executed_fadd",
          "inst_executed_fmul", "inst_executed_ffma", "inst_executed_dadd",
          "inst_executed_dmul", "inst_executed_dfma", "dram_bytes_write",
          "dram_bytes_read", "dram_bytes", "sm_freq", "dram_bandwidth", "duration">>,
     ncu_tflops |->
        <<"inst_executed_fadd", "inst_executed_fmul", "inst_executed_ffma",
          "inst_executed_dadd", "inst_executed_dmul", "inst_executed_dfma",
          "duration", "sm_freq">>]

\* the insertion order of bench_metric_to_short_ncu_metric, which .items() follows
BenchMetricOrder == <<"memory_traffic", "arithmetic_intensity", "ncu_tflops">>

\* [short_ncu_metric_name[s] for s in shorts]
RECURSIVE FullNames(_)
FullNames(shorts) ==
    IF shorts = <<>> THEN <<>>
    ELSE <<short_ncu_metric_name[Head(shorts)]>> \o FullNames(Tail(shorts))

RECURSIVE GetNcuMetricsFrom(_, _)
GetNcuMetricsFrom(order, metrics) ==
    IF order = <<>> THEN <<>>
    ELSE (IF Head(order) \in metrics
          THEN FullNames(bench_metric_to_short_ncu_metric[Head(order)])
          ELSE <<>>)
         \o GetNcuMetricsFrom(Tail(order), metrics)

get_ncu_metrics(metrics) == GetNcuMetricsFrom(BenchMetricOrder, metrics)

(***************************************************************************)
(* ncu_analyzer.py: the per-kernel readers.  A kernel record is a function *)
(* from NCU counter names to numbers.                                      *)
(***************************************************************************)
\* kernel.metric_by_name(short_ncu_metric_name[short]).value()
MetricValue(kernel, short) == kernel[short_ncu_metric_name[short]]

\* faulty variant: the write counter first, as bench_metric_to_short_ncu_metric lists them
get_mem_traffic_swapped(kernel) ==
    <<MetricValue(kernel, "dram_bytes_write"), MetricValue(kernel, "dram_bytes_read")>>

get_mem_traffic(kernel) ==
    <<MetricValue(kernel, "dram_bytes_read"), MetricValue(kernel, "dram_bytes_write")>>

get_duration(kernel) == MetricValue(kernel, "duration")

get_flops(kernel) ==
    LET two == FromInt(2)
        fp32_achieved ==
            FAdd(FAdd(MetricValue(kernel, "inst_executed_fadd"),
                      MetricValue(kernel, "inst_executed_fmul")),
                 FMul(two, MetricValue(kernel, "inst_executed_ffma")))
        fp64_achieved ==
            FAdd(FAdd(MetricValue(kernel, "inst_executed_dadd"),
                      MetricValue(kernel, "inst_executed_dmul")),
                 FMul(two, MetricValue(kernel, "inst_executed_dfma")))
        sm_freq == MetricValue(kernel, "sm_freq")
    IN  <<FMul(fp32_achieved, sm_freq), FMul(fp64_achieved, sm_freq)>>

\* get_arithmetic_intensity raises ZeroDivisionError exactly when this holds
ArithmeticIntensityRaises(kernel) == IsZero(MetricValue(kernel, "dram_bandwidth"))

get_arithmetic_intensity(kernel) ==
    LET dram_bandwidth == MetricValue(kernel, "dram_bandwidth")
        flops == get_flops(kernel)
    IN  <<FDiv(flops[1], dram_bandwidth), FDiv(flops[2], dram_bandwidth)>>

(***************************************************************************)
(* The NCU reports a call may load.  The kernel records are drawn from a   *)
(* pool: A and B are the two kernels of the worked example (100 bytes at   *)
(* intensity 2, 300 bytes at intensity 6), C moved no DRAM byte at all     *)
(* (bandwidth 0), D has zero duration and zero DRAM bytes.                 *)
(***************************************************************************)
KernelOf(c) ==
    [full \in {short_ncu_metric_name[s] : s \in DOMAIN short_ncu_metric_name}
        |-> FromInt(c[CHOOSE s \in DOMAIN c : short_ncu_metric_name[s] = full])]

Counters(fadd, fmul, ffma, dadd, dmul, dfma, freq, bandwidth, bytes, read, write, dur) ==
    [inst_executed_ffma_peak |-> 8, inst_executed_dfma_peak |-> 4,
     inst_executed_fadd |-> fadd, inst_executed_fmul |-> fmul, inst_executed_ffma |-> ffma,
     inst_executed_dadd |-> dadd, inst_executed_dmul |-> dmul, inst_executed_dfma |-> dfma,
     dram_bytes_write |-> write, dram_bytes_read |-> read,
     dram_bytes_per_second |-> bandwidth, dram_bytes |-> bytes,
     sm_freq |-> freq, dram_bandwidth |-> bandwidth, duration |-> dur]

KernelA == KernelOf(Counters(1, 1, 1, 0, 2, 0, 1000, 2000, 100, 60, 40, 20))
KernelB == KernelOf(Counters(0, 0, 3, 1, 0, 1, 1000, 1000, 300, 100, 200, 30))
KernelC == KernelOf(Counters(0, 0, 0, 0, 0, 0, 1000, 0, 0, 0, 0, 5))
KernelD == KernelOf(Counters(2, 0, 0, 0, 0, 0, 1000, 500, 0, 0, 0, 0))

KernelPool == {KernelA, KernelB, KernelC, KernelD}

\* a report: the number of its ranges and the kernel actions of range 0
\* (the other ranges are never read)
NcuReports ==
    {[num_ranges |-> 0, actions |-> <<>>]}
    \cup {[num_ranges |-> r, actions |-> a] : r \in 1..MaxRanges, a \in SeqsUpTo(KernelPool, MaxKernels)}

NoReport == [num_ranges |-> 0, actions |-> <<>>]

(***************************************************************************)
(* nsys_analyzer.py: the static table.                                     *)
(***************************************************************************)
\* faulty variant: the launch overhead asks for the range report alone
nsys_metrics_to_reports_OverheadRangeOnly ==
    [nsys_gpu_kernel_sum |-> <<"nvtx_kern_sum", "nvtx_sum">>,
     nsys_launch_overhead |-> <<"nvtx_sum">>,
     nsys_kernel_names |-> <<"nvtx_kern_sum">>,
     nsys_kernel_durations |-> <<"nvtx_kern_sum">>,
     nsys_nvtx_range_duration |-> <<"nvtx_sum">>,
     nsys_num_of_kernels |-> <<"nvtx_kern_sum">>]

nsys_metrics_to_reports ==
    [nsys_gpu_kernel_sum |-> <<"nvtx_kern_sum", "nvtx_sum">>,
     nsys_launch_overhead |-> <<"nvtx_kern_sum", "nvtx_sum">>,
     nsys_kernel_names |-> <<"nvtx_kern_sum">>,
     nsys_kernel_durations |-> <<"nvtx_kern_sum">>,
     nsys_nvtx_range_duration |-> <<"nvtx_sum">>,
     nsys_num_of_kernels |-> <<"nvtx_kern_sum">>]

(***************************************************************************)
(* The requests.  required_metrics is used by membership only (in, set(),  *)
(* a dict comprehension), so a request is modelled by the set of its names.*)
(* UnknownMetric is in no table; a name of the other tool is unrecognized  *)
(* too.                                                                    *)
(***************************************************************************)
UnknownMetric == "not_a_metric"

NcuRequests ==
    SUBSET (DOMAIN bench_metric_to_short_ncu_metric \cup {UnknownMetric, "nsys_kernel_names"})

NsysRequests ==
    SUBSET (DOMAIN nsys_metrics_to_reports \cup {UnknownMetric, "memory_traffic"})

VARIABLES
    call,                  \* the entry point called
    required_metrics,      \* its argument
    report_exists,         \* os.path.exists(report_path)
    pc,                    \* the position in the call
    err,                   \* the exception that ended the call, "" if none
    ret,                   \* <<>>, or <<v>> once v was returned
    \* read_ncu_report
    loaded,                \* ncu_report.load_report was called
    report,                \* the report it returned
    i,                     \* the loop index: kernel records read so far
    results,
    total_duration,
    total_dram_bytes,
    weighted_fp32_ai_sum,
    weighted_fp64_ai_sum,
    \* read_nsys_report
    reports_required,
    exported,              \* the report types the export command was run for
    csv_contents,
    metrics_map

ncuVars == <<loaded, report, i, results, total_duration, total_dram_bytes,
             weighted_fp32_ai_sum, weighted_fp64_ai_sum>>

nsysVars == <<reports_required, exported, csv_contents, metrics_map>>

vars == <<call, required_metrics, report_exists, pc, err, ret, ncuVars, nsysVars>>

Init ==
    /\ call \in {"get_ncu_metrics", "read_ncu_report", "read_nsys_report"}
    /\ required_metrics \in (IF call = "read_nsys_report" THEN NsysRequests ELSE NcuRequests)
    /\ report_exists \in (IF call = "get_ncu_metrics" THEN {TRUE} ELSE BOOLEAN)
    /\ pc = "start"
    /\ err = ""
    /\ ret = <<>>
    /\ loaded = FALSE
    /\ report = NoReport
    /\ i = 0
    /\ results = EmptyDict
    /\ total_duration = Zero
    /\ total_dram_bytes = Zero
    /\ weighted_fp32_ai_sum = Zero
    /\ weighted_fp64_ai_sum = Zero
    /\ reports_required = {}
    /\ exported = {}
    /\ csv_contents = EmptyDict
    /\ metrics_map = EmptyDict

\* the call ends with exception e; its locals are dropped with its frame
Raise(e) ==
    /\ pc' = "error"
    /\ err' = e
    /\ UNCHANGED <<call, required_metrics, report_exists, ret>>

Goto(p) ==
    /\ pc' = p
    /\ UNCHANGED <<call, required_metrics, report_exists, err, ret>>

Return(v) ==
    /\ pc' = "done"
    /\ ret' = <<v>>
    /\ UNCHANGED <<call, required_metrics, report_exists, err>>

(***************************************************************************)
(* get_ncu_metrics(metrics)                                                *)
(***************************************************************************)
GetNcuMetrics ==
    /\ call = "get_ncu_metrics"
    /\ pc = "start"
    /\ Return(get_ncu_metrics(required_metrics))
    /\ UNCHANGED <<ncuVars, nsysVars>>

(***************************************************************************)
(* read_ncu_report(report_path, required_metrics)                          *)
(***************************************************************************)
\* assert os.path.exists(report_path)
NcuCheckPath ==
    /\ call = "read_ncu_report"
    /\ pc = "start"
    /\ IF report_exists THEN Goto("import") ELSE Raise("AssertionError: report does not exist")
    /\ UNCHANGED <<ncuVars, nsysVars>>

\* _import_ncu_python_path(); import ncu_report
NcuImportPath ==
    /\ call = "read_ncu_report"
    /\ pc = "import"
    /\ \E ncu_found \in BOOLEAN, extras_exists \in BOOLEAN :
        IF ~ncu_found THEN Raise("FileNotFoundError: ncu not in PATH")
        ELSE IF ~extras_exists THEN Raise("FileNotFoundError: extras/python missing")
        ELSE Goto("load")
    /\ UNCHANGED <<ncuVars, nsysVars>>

AssertNumRanges(num_ranges) == num_ranges > 0

\* faulty variant: the assertion on the default range is left out
AssertNumActions_Always(num_actions) == TRUE

AssertNumActions(num_actions) == num_actions > 0

\* load_report, the two assertions, and the initialisation of the accumulators
NcuLoadReport ==
    /\ call = "read_ncu_report"
    /\ pc = "load"
    /\ \E test_report \in NcuReports :
        /\ loaded' = TRUE
        /\ report' = test_report
        /\ IF ~AssertNumRanges(test_report.num_ranges)
           THEN Raise("AssertionError: no ranges")
           ELSE IF ~AssertNumActions(Len(test_report.actions))
           THEN Raise("AssertionError: no actions in default range")
           ELSE Goto("loop")
    /\ UNCHANGED <<i, results, total_duration, total_dram_bytes,
                   weighted_fp32_ai_sum, weighted_fp64_ai_sum, nsysVars>>

\* set(required_metrics) & {"arithmetic_intensity", "ncu_tflops"}
WantsDuration(metrics) == metrics \cap {"arithmetic_intensity", "ncu_tflops"} # {}

\* faulty variant: the intensity is added without its weight
AccumulateWeighted_Unweighted(acc, value, weight) == FAdd(acc, value)

\* weighted_ai_sum += ai * dram_bytes
AccumulateWeighted(acc, value, weight) == FAdd(acc, FMul(value, weight))

\* one iteration of the loop over the kernel actions
NcuKernelStep ==
    /\ call = "read_ncu_report"
    /\ pc = "loop"
    /\ i < Len(report.actions)
    /\ LET kernel == report.actions[i + 1]
           want_dur == WantsDuration(required_metrics)
           want_mt == "memory_traffic" \in required_metrics
           want_ai == "arithmetic_intensity" \in required_metrics
           want_tf == "ncu_tflops" \in required_metrics
           duration == get_duration(kernel)
           r1 == IF want_dur THEN DictAppend(results, "durations", duration) ELSE results
           r2 == IF want_mt THEN DictAppend(r1, "memory_traffic_raw", get_mem_traffic(kernel))
                 ELSE r1
           dram_bytes == MetricValue(kernel, "dram_bytes")
           ai == get_arithmetic_intensity(kernel)
           r3 == IF want_ai THEN DictAppend(r2, "arithmetic_intensity_raw", ai) ELSE r2
           r4 == IF want_tf THEN DictAppend(r3, "ncu_tflops_raw", get_flops(kernel)) ELSE r3
       IN  IF want_ai /\ ArithmeticIntensityRaises(kernel)
           THEN /\ Raise("ZeroDivisionError")
                /\ UNCHANGED <<i, results, total_duration, total_dram_bytes,
                               weighted_fp32_ai_sum, weighted_fp64_ai_sum>>
           ELSE /\ Goto("loop")
                /\ i' = i + 1
                /\ results' = r4
                /\ total_duration' =
                      IF want_dur THEN FAdd(total_duration, duration) ELSE total_duration
                /\ weighted_fp32_ai_sum' =
                      IF want_ai THEN AccumulateWeighted(weighted_fp32_ai_sum, ai[1], dram_bytes)
                      ELSE weighted_fp32_ai_sum
                /\ weighted_fp64_ai_sum' =
                      IF want_ai THEN AccumulateWeighted(weighted_fp64_ai_sum, ai[2], dram_bytes)
                      ELSE weighted_fp64_ai_sum
                /\ total_dram_bytes' =
                      IF want_ai THEN FAdd(total_dram_bytes, dram_bytes) ELSE total_dram_bytes
    /\ UNCHANGED <<loaded, report, nsysVars>>

\* defaultdict(list)[key] read: the empty list for a key never written
DictGetList(dict, key) == IF key \in DOMAIN dict THEN dict[key] ELSE <<>>

\* zip(a, b)
Zip(a, b) ==
    [k \in 1..(IF Len(a) < Len(b) THEN Len(a) ELSE Len(b)) |-> <<a[k], b[k]>>]

\* the tuple (sum of item[0], sum of item[1]) over memory_traffic_raw
MemoryTraffic(raw) ==
    <<FSum([k \in DOMAIN raw |-> raw[k][1]]), FSum([k \in DOMAIN raw |-> raw[k][2]])>>

\* sum(flop[c] * dur for flop, dur in zip(ncu_tflops_raw, durations))
WeightedFlopsSum(raw, durations, c) ==
    LET pairs == Zip(raw, durations)
    IN  FSum([k \in DOMAIN pairs |-> FMul(pairs[k][1][c], pairs[k][2])])

\* the exponent of 10**12
TeraExponent == 12

\* faulty variant: the conversion to tera scale is left out
ToTflops_Unscaled(weighted_flops_sum) == weighted_flops_sum

\* weighted_flops_sum / 10**12
ToTflops(weighted_flops_sum) == FDivPow10(weighted_flops_sum, TeraExponent)

\* the code after the loop, and the return
NcuFinalize ==
    /\ call = "read_ncu_report"
    /\ pc = "loop"
    /\ i = Len(report.actions)
    /\ LET want_mt == "memory_traffic" \in required_metrics
           want_ai == "arithmetic_intensity" \in required_metrics
           want_tf == "ncu_tflops" \in required_metrics
           mt == MemoryTraffic(DictGetList(results, "memory_traffic_raw"))
           r1 == IF want_mt
                 THEN DictSet(DictSet(DictSet(results,
                          "memory_traffic_read_sum", mt[1]),
                          "memory_traffic_write_sum", mt[2]),
                          "memory_traffic", mt)
                 ELSE results
           fp32_ai == FDiv(weighted_fp32_ai_sum, total_dram_bytes)
           fp64_ai == FDiv(weighted_fp64_ai_sum, total_dram_bytes)
           r2 == IF want_ai
                 THEN DictSet(DictSet(DictSet(r1,
                          "weighted_fp32_arithmetic_intensity", fp32_ai),
                          "weighted_fp64_arithmetic_intensity", fp64_ai),
                          "arithmetic_intensity", <<fp32_ai, fp64_ai>>)
                 ELSE r1
           durations == DictGetList(r2, "durations")
           tflops_raw == DictGetList(r2, "ncu_tflops_raw")
           fp32_tflops == ToTflops(WeightedFlopsSum(tflops_raw, durations, 1))
           fp64_tflops == ToTflops(WeightedFlopsSum(tflops_raw, durations, 2))
           r3 == IF want_tf
                 THEN DictSet(r2, "ncu_tflops",
                              <<FDiv(fp32_tflops, total_duration),
                                FDiv(fp64_tflops, total_duration)>>)
                 ELSE r2
       IN  IF want_ai /\ IsZero(total_dram_bytes)
           THEN Raise("ZeroDivisionError") /\ UNCHANGED results
           ELSE IF want_tf /\ durations = <<>>
           THEN Raise("AssertionError: no kernel durations") /\ UNCHANGED results
           ELSE IF want_tf /\ IsZero(total_duration)
           THEN Raise("ZeroDivisionError") /\ UNCHANGED results
           ELSE Return(r3) /\ results' = r3
    /\ UNCHANGED <<loaded, report, i, total_duration, total_dram_bytes,
                   weighted_fp32_ai_sum, weighted_fp64_ai_sum, nsysVars>>

(***************************************************************************)
(* The CSV files `nsys stats` may leave.  A cell is the text of a decimal  *)
(* integer, kept as the sequence of its digits; a row maps column names to *)
(* cells.                                                                  *)
(***************************************************************************)
KernRow(name, digits) == ("Kernel Name" :> name) @@ ("Total Time (ns)" :> digits)

NvtxRow(digits) == ("Range" :> ":tritonbench_range") @@ ("Total Time (ns)" :> digits)

KernRowPool ==
    {KernRow("kernel_a", <<2, 0, 0, 0, 0, 0, 0, 0>>),
     KernRow("kernel_b", <<3, 0, 0, 0, 0, 0, 0, 0>>),
     KernRow("kernel_c", <<5, 0, 0, 0, 0, 0>>)}

NvtxRowPool ==
    {NvtxRow(<<1, 0, 0, 0, 0, 0, 0, 0, 0>>),
     NvtxRow(<<2, 0, 0, 0, 0, 0, 0, 0>>)}

CsvRows(report_type) ==
    SeqsUpTo(IF report_type = "nvtx_kern_sum" THEN KernRowPool ELSE NvtxRowPool, MaxRows)

\* float(cell)
RECURSIVE DigitsValue(_)
DigitsValue(digits) ==
    IF digits = <<>> THEN 0
    ELSE 10 * DigitsValue(SubSeq(digits, 1, Len(digits) - 1)) + digits[Len(digits)]

float(cell) == FromInt(DigitsValue(cell))

\* the exponent of 1_000_000
NsPerMsExponent == 6

\* float(row["Total Time (ns)"]) / 1_000_000
TotalTimeMs(row) == FDivPow10(float(row["Total Time (ns)"]), NsPerMsExponent)

\* str(duration): a string, which is no number
str(x) == [str |-> x]

(***************************************************************************)
(* read_nsys_report(report_path, required_metrics)                         *)
(***************************************************************************)
\* assert os.path.exists(report_path)
NsysCheckPath ==
    /\ call = "read_nsys_report"
    /\ pc = "start"
    /\ IF report_exists THEN Goto("resolve") ELSE Raise("AssertionError: report does not exist")
    /\ UNCHANGED <<ncuVars, nsysVars>>

\* list(set(...)) of the reports of the requested metrics the table knows
ReportsRequired(metrics) ==
    UNION {Range(nsys_metrics_to_reports[m]) : m \in metrics \cap DOMAIN nsys_metrics_to_reports}

\* faulty variant: the assertion is left out
AssertReportsRequired_Always(reports) == TRUE

\* assert reports_required
AssertReportsRequired(reports) == reports # {}

NsysResolveReports ==
    /\ call = "read_nsys_report"
    /\ pc = "resolve"
    /\ LET reports == ReportsRequired(required_metrics)
       IN  IF AssertReportsRequired(reports)
           THEN Goto("export") /\ reports_required' = reports
           ELSE Raise("AssertionError: No nsys reports required") /\ UNCHANGED reports_required
    /\ UNCHANGED <<ncuVars, exported, csv_contents, metrics_map>>

\* subprocess.check_call of `nsys stats --report ...`
NsysExport ==
    /\ call = "read_nsys_report"
    /\ pc = "export"
    /\ exported' = reports_required
    /\ \E exit_ok \in BOOLEAN :
        IF exit_ok THEN Goto("read") ELSE Raise("CalledProcessError")
    /\ UNCHANGED <<ncuVars, reports_required, csv_contents, metrics_map>>

\* one iteration of the loop over reports_required, whose order is that of a set
NsysReadCsv ==
    /\ call = "read_nsys_report"
    /\ pc = "read"
    /\ \E report_type \in reports_required \ DOMAIN csv_contents :
        \E csv_exists \in BOOLEAN :
            IF ~csv_exists
            THEN Raise("RuntimeError: expected CSV report not found") /\ UNCHANGED csv_contents
            ELSE \E rows \in CsvRows(report_type) :
                    /\ Goto("read")
                    /\ csv_contents' = DictSet(csv_contents, report_type, rows)
    /\ UNCHANGED <<ncuVars, reports_required, exported, metrics_map>>

\* faulty variant: the first row is taken whenever there is one
AssertSingleRow_AtLeastOne(rows) == Len(rows) >= 1

\* assert len(csv_contents["nvtx_sum"]) == 1
AssertSingleRow(rows) == Len(rows) = 1

\* faulty variant: a negative overhead is clamped to zero
LaunchOverhead_Clamped(nvtx_range_duration, sum_kernel_duration) ==
    IF FLess(nvtx_range_duration, sum_kernel_duration) THEN Zero
    ELSE FSub(nvtx_range_duration, sum_kernel_duration)

\* nvtx_range_duration - sum_kernel_duration
LaunchOverhead(nvtx_range_duration, sum_kernel_duration) ==
    FSub(nvtx_range_duration, sum_kernel_duration)

\* the metrics_map literal
MetricsMap(kernel_duration, kernel_names, sum_kernel_duration, nvtx_range_duration) ==
    [nsys_kernel_durations |-> [k \in DOMAIN kernel_duration |-> str(kernel_duration[k])],
     nsys_kernel_names |-> kernel_names,
     nsys_gpu_kernel_sum |-> sum_kernel_duration,
     nsys_nvtx_range_duration |-> nvtx_range_duration,
     nsys_launch_overhead |-> LaunchOverhead(nvtx_range_duration, sum_kernel_duration),
     nsys_num_of_kernels |-> Len(kernel_names)]

\* the code between the loop over the CSV files and the filter
NsysParse ==
    /\ call = "read_nsys_report"
    /\ pc = "read"
    /\ DOMAIN csv_contents = reports_required
    /\ LET has_kern == "nvtx_kern_sum" \in DOMAIN csv_contents
           has_nvtx == "nvtx_sum" \in DOMAIN csv_contents
           kern_rows == csv_contents["nvtx_kern_sum"]
           kernel_duration ==
               IF has_kern THEN [k \in DOMAIN kern_rows |-> TotalTimeMs(kern_rows[k])] ELSE <<>>
           kernel_names ==
               IF has_kern THEN [k \in DOMAIN kern_rows |-> kern_rows[k]["Kernel Name"]] ELSE <<>>
           sum_kernel_duration == IF has_kern THEN FSum(kernel_duration) ELSE Zero
           nvtx_range_duration ==
               IF has_nvtx THEN TotalTimeMs(csv_contents["nvtx_sum"][1]) ELSE Zero
           map == MetricsMap(kernel_duration, kernel_names, sum_kernel_duration,
                             nvtx_range_duration)
       IN  IF has_nvtx /\ ~AssertSingleRow(csv_contents["nvtx_sum"])
           THEN Raise("AssertionError: nvtx_sum rows") /\ UNCHANGED metrics_map
           ELSE IF DOMAIN map # DOMAIN nsys_metrics_to_reports
           THEN Raise("AssertionError: metrics_map keys") /\ UNCHANGED metrics_map
           ELSE Goto("filter") /\ metrics_map' = map
    /\ UNCHANGED <<ncuVars, reports_required, exported, csv_contents>>

\* faulty variant: the whole metrics map is returned
FilterKeys_All(metrics, map) == DOMAIN map

\* faulty variant: the comprehension has no `if metric in metrics_map`
FilterKeys_NoGuard(metrics, map) == metrics

\* the metrics the dict comprehension keeps
FilterKeys(metrics, map) == {metric \in metrics : metric \in DOMAIN map}

\* results.update({metric: metrics_map[metric] for ...}); return results
NsysFilter ==
    /\ call = "read_nsys_report"
    /\ pc = "filter"
    /\ LET keys == FilterKeys(required_metrics, metrics_map)
       IN  IF ~(keys \subseteq DOMAIN metrics_map)
           THEN Raise("KeyError")
           ELSE Return([metric \in keys |-> metrics_map[metric]])
    /\ UNCHANGED <<ncuVars, nsysVars>>

Next ==
    \/ GetNcuMetrics
    \/ NcuCheckPath
    \/ NcuImportPath
    \/ NcuLoadReport
    \/ NcuKernelStep
    \/ NcuFinalize
    \/ NsysCheckPath
    \/ NsysResolveReports
    \/ NsysExport
    \/ NsysReadCsv
    \/ NsysParse
    \/ NsysFilter

Spec == Init /\ [][Next]_vars

TypeOK ==
    /\ pc \in {"start", "import", "load", "loop", "resolve", "export", "read", "filter",
               "done", "error"}
    /\ Len(ret) <= 1
    /\ (pc = "done") = (ret # <<>>)
    /\ (pc = "error") = (err # "")

(***************************************************************************)
(* What the claims speak of.                                               *)
(***************************************************************************)
NcuDone == call = "read_ncu_report" /\ pc = "done"

NsysDone == call = "read_nsys_report" /\ pc = "done"

Requested(metric) == metric \in required_metrics

\* the values of one counter over the kernels of the default range
CounterOf(short) == [k \in DOMAIN report.actions |-> MetricValue(report.actions[k], short)]

\* sum of f over the kernels of the default range, from the last kernel down
RECURSIVE SumTo(_, _)
SumTo(f, k) == IF k = 0 THEN Zero ELSE FAdd(f[k], SumTo(f, k - 1))

SumAll(f) == SumTo(f, Len(f))

Tera == [n |-> 1, d |-> 1, e |-> 12]

\* C1: (sum of intensity_k * dram_bytes_k) / (sum of dram_bytes_k), precision c
ExpectedIntensity(c) ==
    FDiv(SumAll([k \in DOMAIN report.actions |->
                    FMul(get_arithmetic_intensity(report.actions[k])[c],
                         MetricValue(report.actions[k], "dram_bytes"))]),
         SumAll(CounterOf("dram_bytes")))

\* C1: a returned "arithmetic_intensity" is the pair, for FP32 and FP64, of the
\* DRAM-byte-weighted mean of the per-kernel intensities over all kernels of the
\* default range, one division after the loop.
C1_WeightedIntensity ==
    (NcuDone /\ Requested("arithmetic_intensity")) =>
        /\ Len(report.actions) >= 1
        /\ ~IsZero(SumAll(CounterOf("dram_bytes")))
        /\ ret[1]["arithmetic_intensity"] = <<ExpectedIntensity(1), ExpectedIntensity(2)>>

\* kernels (bytes=100, intensity=2) and (bytes=300, intensity=6) gave 5
C1_Witness ==
    /\ NcuDone
    /\ Requested("arithmetic_intensity")
    /\ report.actions = <<KernelA, KernelB>>
    /\ ret[1]["arithmetic_intensity"][1] = FromInt(5)

\* C2: ((sum of flops_k * duration_k) / 10^12) / (sum of duration_k), precision c
ExpectedTflops(c) ==
    FDiv(FDiv(SumAll([k \in DOMAIN report.actions |->
                         FMul(get_flops(report.actions[k])[c],
                              get_duration(report.actions[k]))]),
              Tera),
         SumAll(CounterOf("duration")))

\* C2: a returned "ncu_tflops" is the pair, for FP32 and FP64, of the
\* duration-weighted mean of the per-kernel flops in tera scale, every kernel's
\* flops paired with its own duration and its duration counted once, whether or
\* not "arithmetic_intensity" is requested too.
C2_WeightedTflops ==
    (NcuDone /\ Requested("ncu_tflops")) =>
        /\ Len(report.actions) >= 1
        /\ total_duration = SumAll(CounterOf("duration"))
        /\ ~IsZero(total_duration)
        /\ Len(ret[1]["durations"]) = Len(report.actions)
        /\ ret[1]["ncu_tflops"] = <<ExpectedTflops(1), ExpectedTflops(2)>>

C2_Witness ==
    /\ NcuDone
    /\ {"ncu_tflops", "arithmetic_intensity"} \subseteq required_metrics
    /\ report.actions = <<KernelA, KernelB, KernelA>>
    /\ ~IsZero(ret[1]["ncu_tflops"][1])

\* the kernel records in the order p, a permutation of their indices
Permuted(p) == [k \in DOMAIN report.actions |-> report.actions[p[k]]]

\* C3 as stated: a returned "memory_traffic" is one number, the sum of all DRAM
\* read and write byte counters.
C3_Original ==
    (NcuDone /\ Requested("memory_traffic")) =>
        ret[1]["memory_traffic"] =
            <<FAdd(SumAll(CounterOf("dram_bytes_read")), SumAll(CounterOf("dram_bytes_write")))>>

\* C3 amended: a returned "memory_traffic" is the pair (sum of the DRAM read
\* byte counters, sum of the DRAM write byte counters) over all kernels of the
\* default range, and every permutation of the kernel records gives the same pair.
C3_MemoryTrafficPair ==
    (NcuDone /\ Requested("memory_traffic")) =>
        /\ ret[1]["memory_traffic"] =
              <<SumAll(CounterOf("dram_bytes_read")), SumAll(CounterOf("dram_bytes_write"))>>
        /\ \A p \in Permutations(DOMAIN report.actions) :
              MemoryTraffic([k \in DOMAIN report.actions |-> get_mem_traffic(Permuted(p)[k])])
                  = ret[1]["memory_traffic"]

C3_Witness ==
    /\ NcuDone
    /\ Requested("memory_traffic")
    /\ report.actions = <<KernelA, KernelB>>
    /\ ret[1]["memory_traffic"] = <<FromInt(160), FromInt(240)>>

\* a cell of nanoseconds as a number of milliseconds
CellMs(row) == Mk(DigitsValue(row["Total Time (ns)"]), 1000000, 0)

KernRowsRead == csv_contents["nvtx_kern_sum"]

NvtxRowsRead == csv_contents["nvtx_sum"]

ExpectedKernelSum == SumAll([k \in DOMAIN KernRowsRead |-> CellMs(KernRowsRead[k])])

\* C4: a returned "nsys_launch_overhead" is the range duration minus the sum of
\* all kernel durations, in milliseconds, unclamped: negative exactly when the
\* kernel durations sum to more than the range duration.
C4_LaunchOverhead ==
    (NsysDone /\ Requested("nsys_launch_overhead")) =>
        /\ {"nvtx_kern_sum", "nvtx_sum"} \subseteq DOMAIN csv_contents
        /\ ret[1]["nsys_launch_overhead"] = FSub(CellMs(NvtxRowsRead[1]), ExpectedKernelSum)
        /\ (ret[1]["nsys_launch_overhead"].n < 0)
              = FLess(CellMs(NvtxRowsRead[1]), ExpectedKernelSum)

\* range 100 ms, kernels 20 ms and 30 ms: 50 ms
C4_Witness ==
    /\ NsysDone
    /\ Requested("nsys_launch_overhead")
    /\ Len(KernRowsRead) = 2
    /\ CellMs(NvtxRowsRead[1]) = FromInt(100)
    /\ CellMs(KernRowsRead[1]) = FromInt(20)
    /\ CellMs(KernRowsRead[2]) = FromInt(30)
    /\ ret[1]["nsys_launch_overhead"] = FromInt(50)

EmptyRequest ==
    /\ call \in {"read_ncu_report", "read_nsys_report"}
    /\ required_metrics = {}
    /\ report_exists

\* the tool that reads NCU reports is not installed
ToolErrors ==
    {"FileNotFoundError: ncu not in PATH", "FileNotFoundError: extras/python missing"}

\* C5 as stated: with no metric requested and the report path existing, both
\* readers return the empty mapping, and no report is loaded, no export command run
\* and no CSV read.
C5_Original ==
    EmptyRequest =>
        /\ ~loaded
        /\ exported = {}
        /\ DOMAIN csv_contents = {}
        /\ pc = "done" => ret = <<EmptyDict>>
        /\ pc = "error" => err \in ToolErrors

\* C5 amended: with no metric requested and the report path existing,
\* read_nsys_report returns nothing: it ends in the assertion "No nsys reports
\* required", before any export command or CSV read; read_ncu_report returns the
\* empty mapping, but only after it loaded the report and found a range and a
\* kernel action in it.
C5_EmptyRequest ==
    EmptyRequest =>
        /\ call = "read_nsys_report" =>
              /\ exported = {}
              /\ DOMAIN csv_contents = {}
              /\ ret = <<>>
              /\ pc \in {"start", "resolve", "error"}
              /\ pc = "error" => err = "AssertionError: No nsys reports required"
        /\ call = "read_ncu_report" =>
              /\ results = EmptyDict
              /\ pc = "done" =>
                    /\ ret = <<EmptyDict>>
                    /\ loaded
                    /\ report.num_ranges > 0
                    /\ Len(report.actions) > 0

C5_Witness ==
    /\ EmptyRequest
    /\ NcuDone
    /\ loaded
    /\ ret = <<EmptyDict>>

\* C6: once read_ncu_report has loaded a report with no range, or with no kernel
\* action in range 0, the call has ended in an error, whatever was requested:
\* nothing is returned and no kernel record was read.
C6_EmptyReportIsFatal ==
    (call = "read_ncu_report" /\ loaded
        /\ (report.num_ranges = 0 \/ Len(report.actions) = 0)) =>
        /\ pc = "error"
        /\ err \in {"AssertionError: no ranges", "AssertionError: no actions in default range"}
        /\ ret = <<>>
        /\ i = 0
        /\ results = EmptyDict

C6_Witness ==
    /\ call = "read_ncu_report"
    /\ loaded
    /\ report.num_ranges > 0
    /\ Len(report.actions) = 0
    /\ required_metrics = {"memory_traffic"}
    /\ pc = "error"
    /\ ret = <<>>

\* C7 as stated: the keys of a mapping read_nsys_report returns are exactly the
\* requested metrics, each with the value of the full metrics map.
C7_Original ==
    NsysDone =>
        /\ DOMAIN ret[1] = required_metrics
        /\ \A metric \in DOMAIN ret[1] : ret[1][metric] = metrics_map[metric]

\* C7 amended: the keys of a mapping read_nsys_report returns are exactly the
\* requested metrics that nsys_metrics_to_reports knows, each with the value of
\* the full metrics map; a requested name the table does not know is no key.
C7_ReturnsRecognizedRequested ==
    NsysDone =>
        /\ DOMAIN ret[1] = required_metrics \cap DOMAIN nsys_metrics_to_reports
        /\ \A metric \in DOMAIN ret[1] : ret[1][metric] = metrics_map[metric]

C7_Witness ==
    /\ NsysDone
    /\ required_metrics = {"nsys_kernel_names", "nsys_nvtx_range_duration", UnknownMetric}
    /\ DOMAIN ret[1] = {"nsys_kernel_names", "nsys_nvtx_range_duration"}
    /\ Len(ret[1]["nsys_kernel_names"]) = 2

\* the table the called entry point resolves names with
KnownMetrics ==
    IF call = "read_nsys_report" THEN DOMAIN nsys_metrics_to_reports
    ELSE DOMAIN bench_metric_to_short_ncu_metric

Unrecognized == required_metrics \ KnownMetrics

\* the errors whose cause is the file system, the tools or the report read
EnvironmentErrors ==
    ToolErrors \cup
    {"AssertionError: report does not exist", "AssertionError: no ranges",
     "AssertionError: no actions in default range", "ZeroDivisionError",
     "CalledProcessError", "RuntimeError: expected CSV report not found",
     "AssertionError: nvtx_sum rows"}

UnrecognizedAbsent ==
    pc = "done" =>
        IF call = "get_ncu_metrics"
        THEN ret[1] = get_ncu_metrics(required_metrics \ Unrecognized)
        ELSE DOMAIN ret[1] \cap Unrecognized = {}

\* the requested names that are in no dependency table at all
InNoTable ==
    required_metrics
        \ (DOMAIN bench_metric_to_short_ncu_metric \cup DOMAIN nsys_metrics_to_reports)

C9_SingleRangeRow ==
    (call = "read_nsys_report" /\ "nvtx_sum" \in DOMAIN csv_contents) =>
        /\ Len(NvtxRowsRead) # 1 =>
              /\ pc \in {"read", "error"}
              /\ ret = <<>>
              /\ metrics_map = EmptyDict
        /\ pc \in {"filter", "done"} => Len(NvtxRowsRead) = 1

C9_Witness ==
    /\ call = "read_nsys_report"
    /\ "nvtx_sum" \in DOMAIN csv_contents
    /\ Len(NvtxRowsRead) = 2
    /\ DOMAIN csv_contents = reports_required
    /\ pc = "error"
    /\ err = "AssertionError: nvtx_sum rows"

\* the CSV reports whose rows the value of a metric is computed from
ReportsReadBy(metric) ==
    CASE metric = "nsys_kernel_durations" -> {"nvtx_kern_sum"}
      [] metric = "nsys_kernel_names" -> {"nvtx_kern_sum"}
      [] metric = "nsys_gpu_kernel_sum" -> {"nvtx_kern_sum"}
      [] metric = "nsys_num_of_kernels" -> {"nvtx_kern_sum"}
      [] metric = "nsys_nvtx_range_duration" -> {"nvtx_sum"}
      [] metric = "nsys_launch_overhead" -> {"nvtx_kern_sum", "nvtx_sum"}

\* C10: every report the value of a returned metric is computed from was
\* exported and parsed in the call, so no returned value is a default.
C10_ReportsLoaded ==
    NsysDone =>
        \A metric \in DOMAIN ret[1] :
            /\ ReportsReadBy(metric) \subseteq exported
            /\ ReportsReadBy(metric) \subseteq DOMAIN csv_contents

C10_Witness ==
    /\ NsysDone
    /\ required_metrics = {"nsys_launch_overhead"}
    /\ DOMAIN csv_contents = {"nvtx_kern_sum", "nvtx_sum"}
    /\ Len(KernRowsRead) = 2
====
